---- MODULE Spec2Model ----
(***************************************************************************)
(* Model of the ACL engine of src/src/lib.rs: a bitmask of permissions     *)
(* per account (Acl.permissions), the checked and unchecked mutations of   *)
(* the admin and grant bits, the read and guard operations, and the event  *)
(* log written by AclEvent::emit.                                          *)
(***************************************************************************)
EXTENDS Integers, Sequences, FiniteSets, TLC

\* Bound on the length of the event log; mutations stop once it is reached.
MaxLog == 5

\* The accounts that call the contract. The code never looks into an account
\* id, so the account that deploys the contract is taken to be the first.
Accounts == {"alice", "bob"}
Deployers == {"alice"}

\* enum Role, and its discriminants (repr(u8)).
Role == {"L1", "L2", "L3"}

RoleAsU8(role) == CASE role = "L1" -> 0 [] role = "L2" -> 1 [] role = "L3" -> 2

\* enum AclAdmin, and its discriminants (repr(u8)).
AclAdmin == {"Super", "L1", "L2", "L3"}

AclAdminAsU8(a) == CASE a = "Super" -> 0 [] a = "L1" -> 1 [] a = "L2" -> 2 [] a = "L3" -> 3

\* impl From<Role> for AclAdmin with the arm of L1 naming the wrong variant.
admin_L1_is_super(role) ==
  CASE role = "L1" -> "Super" [] role = "L2" -> "L2" [] role = "L3" -> "L3"

\* impl From<Role> for AclAdmin, Role::admin.
admin(role) == CASE role = "L1" -> "L1" [] role = "L2" -> "L2" [] role = "L3" -> "L3"

\* The flags of AclPermissions.
SUPER_ADMIN == 1
L1 == 2
L1_ADMIN == 4
L2 == 8
L2_ADMIN == 16
L3 == 32
L3_ADMIN == 64

MAX_BITFLAG_SHIFT == 127

\* AclPermissions::all().bits(): the union of the declared flags.
AllBits == SUPER_ADMIN + L1 + L1_ADMIN + L2 + L2_ADMIN + L3 + L3_ADMIN

\* Every value an AclPermissions can hold.
AclPermissions == 0..AllBits

RECURSIVE Shl1(_)
\* 1u128 << shift
Shl1(shift) == IF shift = 0 THEN 1 ELSE 2 * Shl1(shift - 1)

RECURSIVE BitAndRec(_, _)
\* a & b on unsigned integers, bit by bit
BitAndRec(a, b) ==
  IF a = 0 \/ b = 0 THEN 0
  ELSE (a % 2) * (b % 2) + 2 * BitAndRec(a \div 2, b \div 2)

\* a & b for every pair of AclPermissions values, computed once.
BitAndTable == [a \in AclPermissions |-> [b \in AclPermissions |-> BitAndRec(a, b)]]

\* a & b
BitAnd(a, b) == BitAndTable[a][b]

\* a | b
BitOr(a, b) == a + b - BitAnd(a, b)

\* AclPermissions::empty()
empty == 0

\* AclPermissions::contains: all bits of other are set in p.
contains(p, other) == BitAnd(p, other) = other

\* AclPermissions::intersects: some bit of other is set in p.
intersects(p, other) == BitAnd(p, other) # 0

\* AclPermissions::insert
insert(p, other) == BitOr(p, other)

\* AclPermissions::remove: p & !other
remove(p, other) == p - BitAnd(p, other)

\* The outcome of a conversion that aborts the call.
Panic == -1

\* AclPermissions::from_bits followed by unwrap_or_else(panic).
from_bits(bits) == IF BitAnd(bits, AllBits) = bits THEN bits ELSE Panic

\* impl From<Role> for AclPermissions without the `+1` of the shift.
RoleInto_even_shift(role) ==
  LET shift == RoleAsU8(role) * 2
  IN IF shift <= MAX_BITFLAG_SHIFT THEN from_bits(Shl1(shift)) ELSE Panic

\* impl From<Role> for AclPermissions
RoleInto(role) ==
  LET shift == (RoleAsU8(role) * 2) + 1
  IN IF shift <= MAX_BITFLAG_SHIFT THEN from_bits(Shl1(shift)) ELSE Panic

\* impl From<AclAdmin> for AclPermissions
AclAdminInto(a) ==
  LET shift == AclAdminAsU8(a) * 2
  IN IF shift <= MAX_BITFLAG_SHIFT THEN from_bits(Shl1(shift)) ELSE Panic

\* The two conversions for every variant, computed once.
RoleIntoTable == [role \in Role |-> RoleInto(role)]
AclAdminIntoTable == [a \in AclAdmin |-> AclAdminInto(a)]

\* role.into(): the grant flag of a role
RoleFlag(role) == RoleIntoTable[role]

\* role.admin().into() and AclAdmin::into(): the flag of an AclAdmin variant
AdminFlag(a) == AclAdminIntoTable[a]

VARIABLES
  permissions,  \* Acl.permissions: a map from some accounts to AclPermissions
  log,          \* the events logged by env::log_str, oldest first
  call,         \* the last call made to the contract and what it returned
  flips         \* per event kind, the number of calls that flipped a bit

vars == <<permissions, log, call, flips>>

\* UnorderedMap::get: is there an entry for the account
has_entry(perms, account_id) == account_id \in DOMAIN perms

\* UnorderedMap::insert
map_insert(perms, account_id, p) ==
  [a \in (DOMAIN perms) \cup {account_id} |-> IF a = account_id THEN p ELSE perms[a]]

\* Acl::new: an empty map.
EmptyMap == [a \in {} |-> empty]

\* Acl::get_or_init_permissions with all() where empty() is meant.
get_or_init_permissions_all(perms, account_id) ==
  IF has_entry(perms, account_id) THEN perms[account_id] ELSE AllBits

\* Acl::get_or_init_permissions
get_or_init_permissions(perms, account_id) ==
  IF has_entry(perms, account_id) THEN perms[account_id] ELSE empty

\* Acl::is_admin with the SUPER_ADMIN test left out.
is_admin_no_super(perms, role, account_id) ==
  IF ~has_entry(perms, account_id) THEN FALSE
  ELSE contains(perms[account_id], AdminFlag(admin(role)))

\* Acl::is_admin
is_admin(perms, role, account_id) ==
  IF ~has_entry(perms, account_id) THEN FALSE
  ELSE \/ contains(perms[account_id], SUPER_ADMIN)
       \/ contains(perms[account_id], AdminFlag(admin(role)))

\* Acl::has_role
has_role(perms, role, account_id) ==
  IF has_entry(perms, account_id) THEN contains(perms[account_id], RoleFlag(role))
  ELSE FALSE

\* AclEventId::name
name(id) ==
  CASE id = "AdminAdded" -> "acl_admin_added"
    [] id = "AdminRevoked" -> "acl_admin_revoked"
    [] id = "RoleGranted" -> "acl_role_granted"
    [] id = "RoleRevoked" -> "acl_role_revoked"

AclEventId == {"AdminAdded", "AdminRevoked", "RoleGranted", "RoleRevoked"}

EVENT_STANDARD == "nep279"
EVENT_VERSION == "1.0.0"

\* AclEvent::new_from_env with the two accounts of the metadata exchanged.
new_from_env_swapped(id, role, account_id, predecessor) ==
  [standard |-> EVENT_STANDARD, version |-> EVENT_VERSION, event |-> name(id),
   data |-> [role |-> role, account_id |-> predecessor, predecessor |-> account_id]]

\* AclEvent::new_from_env
new_from_env(id, role, account_id, predecessor) ==
  [standard |-> EVENT_STANDARD, version |-> EVENT_VERSION, event |-> name(id),
   data |-> [role |-> role, account_id |-> account_id, predecessor |-> predecessor]]

\* AclEvent::emit: one more line in the log.
emit(lg, ev) == Append(lg, ev)

\* Acl::add_admin_unchecked with the test of the bit left out.
add_admin_unchecked_no_test(perms, lg, role, account_id, predecessor) ==
  LET flag == AdminFlag(admin(role))
      p == get_or_init_permissions(perms, account_id)
  IN [permissions |-> map_insert(perms, account_id, insert(p, flag)),
      log |-> emit(lg, new_from_env("AdminAdded", role, account_id, predecessor)),
      ret |-> TRUE]

\* Acl::add_admin_unchecked
add_admin_unchecked(perms, lg, role, account_id, predecessor) ==
  LET flag == AdminFlag(admin(role))
      p == get_or_init_permissions(perms, account_id)
      is_new_admin == ~contains(p, flag)
  IN IF is_new_admin
     THEN [permissions |-> map_insert(perms, account_id, insert(p, flag)),
           log |-> emit(lg, new_from_env("AdminAdded", role, account_id, predecessor)),
           ret |-> is_new_admin]
     ELSE [permissions |-> perms, log |-> lg, ret |-> is_new_admin]

\* Acl::revoke_admin_unchecked
revoke_admin_unchecked(perms, lg, role, account_id, predecessor) ==
  LET flag == AdminFlag(admin(role))
      p == get_or_init_permissions(perms, account_id)
      was_admin == contains(p, flag)
  IN IF ~was_admin
     THEN [permissions |-> map_insert(perms, account_id, remove(p, flag)),
           log |-> emit(lg, new_from_env("AdminRevoked", role, account_id, predecessor)),
           ret |-> was_admin]
     ELSE [permissions |-> perms, log |-> lg, ret |-> was_admin]

\* Acl::grant_role_unchecked with the test of the bit left out.
grant_role_unchecked_no_test(perms, lg, role, account_id, predecessor) ==
  LET flag == RoleFlag(role)
      p == get_or_init_permissions(perms, account_id)
  IN [permissions |-> map_insert(perms, account_id, insert(p, flag)),
      log |-> emit(lg, new_from_env("RoleGranted", role, account_id, predecessor)),
      ret |-> TRUE]

\* Acl::grant_role_unchecked inserting the admin flag of the role with the
\* grant flag.
grant_role_unchecked_with_admin(perms, lg, role, account_id, predecessor) ==
  LET flag == BitOr(RoleFlag(role), AdminFlag(admin(role)))
      p == get_or_init_permissions(perms, account_id)
      is_new_grantee == ~contains(p, flag)
  IN IF is_new_grantee
     THEN [permissions |-> map_insert(perms, account_id, insert(p, flag)),
           log |-> emit(lg, new_from_env("RoleGranted", role, account_id, predecessor)),
           ret |-> is_new_grantee]
     ELSE [permissions |-> perms, log |-> lg, ret |-> is_new_grantee]

\* Acl::grant_role_unchecked
grant_role_unchecked(perms, lg, role, account_id, predecessor) ==
  LET flag == RoleFlag(role)
      p == get_or_init_permissions(perms, account_id)
      is_new_grantee == ~contains(p, flag)
  IN IF is_new_grantee
     THEN [permissions |-> map_insert(perms, account_id, insert(p, flag)),
           log |-> emit(lg, new_from_env("RoleGranted", role, account_id, predecessor)),
           ret |-> is_new_grantee]
     ELSE [permissions |-> perms, log |-> lg, ret |-> is_new_grantee]

\* Acl::revoke_role_unchecked with the test negated, as in revoke_admin_unchecked.
revoke_role_unchecked_negated(perms, lg, role, account_id, predecessor) ==
  LET flag == RoleFlag(role)
      p == get_or_init_permissions(perms, account_id)
      was_grantee == contains(p, flag)
  IN IF ~was_grantee
     THEN [permissions |-> map_insert(perms, account_id, remove(p, flag)),
           log |-> emit(lg, new_from_env("RoleRevoked", role, account_id, predecessor)),
           ret |-> was_grantee]
     ELSE [permissions |-> perms, log |-> lg, ret |-> was_grantee]

\* Acl::revoke_role_unchecked
revoke_role_unchecked(perms, lg, role, account_id, predecessor) ==
  LET flag == RoleFlag(role)
      p == get_or_init_permissions(perms, account_id)
      was_grantee == contains(p, flag)
  IN IF was_grantee
     THEN [permissions |-> map_insert(perms, account_id, remove(p, flag)),
           log |-> emit(lg, new_from_env("RoleRevoked", role, account_id, predecessor)),
           ret |-> was_grantee]
     ELSE [permissions |-> perms, log |-> lg, ret |-> was_grantee]

\* Option<bool> and bool as returned to the caller.
Some(b) == IF b THEN "Some(true)" ELSE "Some(false)"
Bool(b) == IF b THEN "true" ELSE "false"

\* Acl::add_admin without the test of the predecessor.
add_admin_no_check(perms, lg, role, account_id, predecessor) ==
  LET r == add_admin_unchecked(perms, lg, role, account_id, predecessor)
  IN [permissions |-> r.permissions, log |-> r.log, ret |-> Some(r.ret)]

\* Acl::add_admin
add_admin(perms, lg, role, account_id, predecessor) ==
  IF ~is_admin(perms, role, predecessor)
  THEN [permissions |-> perms, log |-> lg, ret |-> "None"]
  ELSE LET r == add_admin_unchecked(perms, lg, role, account_id, predecessor)
       IN [permissions |-> r.permissions, log |-> r.log, ret |-> Some(r.ret)]

\* Acl::revoke_admin
revoke_admin(perms, lg, role, account_id, predecessor) ==
  IF ~is_admin(perms, role, predecessor)
  THEN [permissions |-> perms, log |-> lg, ret |-> "None"]
  ELSE LET r == revoke_admin_unchecked(perms, lg, role, account_id, predecessor)
       IN [permissions |-> r.permissions, log |-> r.log, ret |-> Some(r.ret)]

\* Acl::renounce_admin
renounce_admin(perms, lg, role, predecessor) ==
  LET r == revoke_admin_unchecked(perms, lg, role, predecessor, predecessor)
  IN [permissions |-> r.permissions, log |-> r.log, ret |-> Bool(r.ret)]

\* Acl::grant_role without the test of the predecessor.
grant_role_no_check(perms, lg, role, account_id, predecessor) ==
  LET r == grant_role_unchecked(perms, lg, role, account_id, predecessor)
  IN [permissions |-> r.permissions, log |-> r.log, ret |-> Some(r.ret)]

\* Acl::grant_role
grant_role(perms, lg, role, account_id, predecessor) ==
  IF ~is_admin(perms, role, predecessor)
  THEN [permissions |-> perms, log |-> lg, ret |-> "None"]
  ELSE LET r == grant_role_unchecked(perms, lg, role, account_id, predecessor)
       IN [permissions |-> r.permissions, log |-> r.log, ret |-> Some(r.ret)]

\* Acl::revoke_role
revoke_role(perms, lg, role, account_id, predecessor) ==
  IF ~is_admin(perms, role, predecessor)
  THEN [permissions |-> perms, log |-> lg, ret |-> "None"]
  ELSE LET r == revoke_role_unchecked(perms, lg, role, account_id, predecessor)
       IN [permissions |-> r.permissions, log |-> r.log, ret |-> Some(r.ret)]

\* Acl::renounce_role
renounce_role(perms, lg, role, predecessor) ==
  LET r == revoke_role_unchecked(perms, lg, role, predecessor, predecessor)
  IN [permissions |-> r.permissions, log |-> r.log, ret |-> Bool(r.ret)]

\* Acl::check_any: does the require! pass
check_any(perms, target, account_id) ==
  intersects(get_or_init_permissions(perms, account_id), target)

\* Acl::check_all testing intersects where contains is meant.
check_all_intersects(perms, target, account_id) ==
  intersects(get_or_init_permissions(perms, account_id), target)

\* Acl::check_all: does the require! pass
check_all(perms, target, account_id) ==
  contains(get_or_init_permissions(perms, account_id), target)

\* Counter::new that also grants the caller the role L1.
new_grants_L1(caller) ==
  LET s1 == add_admin_unchecked(EmptyMap, <<>>, "L1", caller, caller)
      s2 == add_admin_unchecked(s1.permissions, s1.log, "L2", caller, caller)
      s3 == add_admin_unchecked(s2.permissions, s2.log, "L3", caller, caller)
      s4 == grant_role_unchecked(s3.permissions, s3.log, "L1", caller, caller)
  IN [permissions |-> s4.permissions, log |-> s4.log, flipped |-> 3]

\* Counter::new called by caller: the store and the log after construction.
new(caller) ==
  LET s1 == add_admin_unchecked(EmptyMap, <<>>, "L1", caller, caller)
      s2 == add_admin_unchecked(s1.permissions, s1.log, "L2", caller, caller)
      s3 == add_admin_unchecked(s2.permissions, s2.log, "L3", caller, caller)
  IN [permissions |-> s3.permissions, log |-> s3.log,
      flipped |-> (IF s1.ret THEN 1 ELSE 0) + (IF s2.ret THEN 1 ELSE 0)
                  + (IF s3.ret THEN 1 ELSE 0)]

\* The call record of one invocation.
Call(op, role, account_id, predecessor, target, ret) ==
  [op |-> op, role |-> role, account_id |-> account_id,
   predecessor |-> predecessor, target |-> target, ret |-> ret]

\* 1 when the call changed the bit flag of account_id, else 0.
Flipped(before, after, account_id, flag) ==
  IF contains(get_or_init_permissions(before, account_id), flag)
     # contains(get_or_init_permissions(after, account_id), flag)
  THEN 1 ELSE 0

\* Counter::new
Init ==
  \E caller \in Deployers :
    LET s == new(caller)
    IN /\ permissions = s.permissions
       /\ log = s.log
       /\ call = Call("new", "-", caller, caller, empty, "-")
       /\ flips = [id \in AclEventId |-> IF id = "AdminAdded" THEN s.flipped ELSE 0]

\* Counter::acl_add_admin
acl_add_admin(role, account_id, predecessor) ==
  /\ \E r \in {add_admin(permissions, log, role, account_id, predecessor)} :
        /\ Len(r.log) <= MaxLog
        /\ permissions' = r.permissions
        /\ log' = r.log
        /\ call' = Call("acl_add_admin", role, account_id, predecessor, empty, r.ret)
        /\ flips' = [flips EXCEPT !["AdminAdded"] =
                       @ + Flipped(permissions, r.permissions, account_id,
                                   AdminFlag(admin(role)))]

\* Counter::acl_revoke_admin
acl_revoke_admin(role, account_id, predecessor) ==
  /\ \E r \in {revoke_admin(permissions, log, role, account_id, predecessor)} :
        /\ Len(r.log) <= MaxLog
        /\ permissions' = r.permissions
        /\ log' = r.log
        /\ call' = Call("acl_revoke_admin", role, account_id, predecessor, empty, r.ret)
        /\ flips' = [flips EXCEPT !["AdminRevoked"] =
                       @ + Flipped(permissions, r.permissions, account_id,
                                   AdminFlag(admin(role)))]

\* Counter::acl_renounce_admin
acl_renounce_admin(role, predecessor) ==
  /\ \E r \in {renounce_admin(permissions, log, role, predecessor)} :
        /\ Len(r.log) <= MaxLog
        /\ permissions' = r.permissions
        /\ log' = r.log
        /\ call' = Call("acl_renounce_admin", role, predecessor, predecessor, empty, r.ret)
        /\ flips' = [flips EXCEPT !["AdminRevoked"] =
                       @ + Flipped(permissions, r.permissions, predecessor,
                                   AdminFlag(admin(role)))]

\* Counter::acl_grant_role
acl_grant_role(role, account_id, predecessor) ==
  /\ \E r \in {grant_role(permissions, log, role, account_id, predecessor)} :
        /\ Len(r.log) <= MaxLog
        /\ permissions' = r.permissions
        /\ log' = r.log
        /\ call' = Call("acl_grant_role", role, account_id, predecessor, empty, r.ret)
        /\ flips' = [flips EXCEPT !["RoleGranted"] =
                       @ + Flipped(permissions, r.permissions, account_id, RoleFlag(role))]

\* Counter::acl_revoke_role
acl_revoke_role(role, account_id, predecessor) ==
  /\ \E r \in {revoke_role(permissions, log, role, account_id, predecessor)} :
        /\ Len(r.log) <= MaxLog
        /\ permissions' = r.permissions
        /\ log' = r.log
        /\ call' = Call("acl_revoke_role", role, account_id, predecessor, empty, r.ret)
        /\ flips' = [flips EXCEPT !["RoleRevoked"] =
                       @ + Flipped(permissions, r.permissions, account_id, RoleFlag(role))]

\* Counter::acl_renounce_role
acl_renounce_role(role, predecessor) ==
  /\ \E r \in {renounce_role(permissions, log, role, predecessor)} :
        /\ Len(r.log) <= MaxLog
        /\ permissions' = r.permissions
        /\ log' = r.log
        /\ call' = Call("acl_renounce_role", role, predecessor, predecessor, empty, r.ret)
        /\ flips' = [flips EXCEPT !["RoleRevoked"] =
                       @ + Flipped(permissions, r.permissions, predecessor, RoleFlag(role))]

\* Counter::acl_is_admin: &self, nothing is written.
acl_is_admin(role, account_id) ==
  /\ call' = Call("acl_is_admin", role, account_id, "-", empty,
                  Bool(is_admin(permissions, role, account_id)))
  /\ UNCHANGED <<permissions, log, flips>>

\* Counter::acl_has_role: &self, nothing is written.
acl_has_role(role, account_id) ==
  /\ call' = Call("acl_has_role", role, account_id, "-", empty,
                  Bool(has_role(permissions, role, account_id)))
  /\ UNCHANGED <<permissions, log, flips>>

\* The outcome of a require!: the call goes on or the call aborts.
Require(b) == IF b THEN "ok" ELSE "panic"

\* Counter::foo2 reading through a get that stores the default it returns.
foo2_materialize(predecessor) ==
  /\ call' = Call("foo2", "-", predecessor, predecessor, L2,
                  Require(check_any(permissions, L2, predecessor)))
  /\ permissions' = map_insert(permissions, predecessor,
                               get_or_init_permissions(permissions, predecessor))
  /\ UNCHANGED <<log, flips>>

\* Counter::foo2
foo2(predecessor) ==
  /\ call' = Call("foo2", "-", predecessor, predecessor, L2,
                  Require(check_any(permissions, L2, predecessor)))
  /\ UNCHANGED <<permissions, log, flips>>

\* Counter::foo3
foo3(predecessor) ==
  /\ call' = Call("foo3", "-", predecessor, predecessor, BitOr(L1, L2),
                  Require(check_any(permissions, BitOr(L1, L2), predecessor)))
  /\ UNCHANGED <<permissions, log, flips>>

\* Counter::foo4
foo4(predecessor) ==
  /\ call' = Call("foo4", "-", predecessor, predecessor, BitOr(L1, L3),
                  Require(check_all(permissions, BitOr(L1, L3), predecessor)))
  /\ UNCHANGED <<permissions, log, flips>>

Next ==
  \/ \E role \in Role, account_id \in Accounts, predecessor \in Accounts :
       acl_add_admin(role, account_id, predecessor)
  \/ \E role \in Role, account_id \in Accounts, predecessor \in Accounts :
       acl_revoke_admin(role, account_id, predecessor)
  \/ \E role \in Role, predecessor \in Accounts :
       acl_renounce_admin(role, predecessor)
  \/ \E role \in Role, account_id \in Accounts, predecessor \in Accounts :
       acl_grant_role(role, account_id, predecessor)
  \/ \E role \in Role, account_id \in Accounts, predecessor \in Accounts :
       acl_revoke_role(role, account_id, predecessor)
  \/ \E role \in Role, predecessor \in Accounts :
       acl_renounce_role(role, predecessor)
  \/ \E role \in Role, account_id \in Accounts : acl_is_admin(role, account_id)
  \/ \E role \in Role, account_id \in Accounts : acl_has_role(role, account_id)
  \/ \E predecessor \in Accounts : foo2(predecessor)
  \/ \E predecessor \in Accounts : foo3(predecessor)
  \/ \E predecessor \in Accounts : foo4(predecessor)

Spec == Init /\ [][Next]_vars

(***************************************************************************)
(* The read and guard functions of Acl on any store: the store is drawn    *)
(* from the maps that hold at most one entry, of any AclPermissions value, *)
(* and one function is applied to it.                                      *)
(***************************************************************************)

\* Acl::check_any(target, account_id) called on the store
do_check_any(target, account_id) ==
  /\ call' = Call("check_any", "-", account_id, "-", target,
                  Require(check_any(permissions, target, account_id)))
  /\ UNCHANGED <<permissions, log, flips>>

\* Acl::check_all(target, account_id) called on the store
do_check_all(target, account_id) ==
  /\ call' = Call("check_all", "-", account_id, "-", target,
                  Require(check_all(permissions, target, account_id)))
  /\ UNCHANGED <<permissions, log, flips>>

QueryStores ==
  {EmptyMap} \cup {[a \in {account_id} |-> p] : account_id \in Accounts, p \in AclPermissions}

QueryInit ==
  /\ permissions \in QueryStores
  /\ log = <<>>
  /\ call = Call("load", "-", "-", "-", empty, "-")
  /\ flips = [id \in AclEventId |-> 0]

QueryNext ==
  /\ call.op = "load"
  /\ \/ \E role \in Role, account_id \in Accounts : acl_is_admin(role, account_id)
     \/ \E role \in Role, account_id \in Accounts : acl_has_role(role, account_id)
     \/ \E target \in AclPermissions, account_id \in Accounts :
          do_check_any(target, account_id)
     \/ \E target \in AclPermissions, account_id \in Accounts :
          do_check_all(target, account_id)

SpecQuery == QueryInit /\ [][QueryNext]_vars

(***************************************************************************)
(* One call of the contract on any store: the store is drawn from the maps *)
(* of any accounts to any AclPermissions values, entries of no bits among  *)
(* them, and one method of the contract is called on it.                   *)
(***************************************************************************)

TwinStores ==
  UNION {[S -> AclPermissions] : S \in SUBSET Accounts}

TwinInit ==
  /\ permissions \in TwinStores
  /\ log = <<>>
  /\ call = Call("load", "-", "-", "-", empty, "-")
  /\ flips = [id \in AclEventId |-> 0]

TwinNext == call.op = "load" /\ Next

SpecTwin == TwinInit /\ [][TwinNext]_vars

(***************************************************************************)
(* The two conversions into AclPermissions, applied to every variant.      *)
(***************************************************************************)

\* AclPermissions::from(role): the flag, or the abort of the call.
into_role(role) ==
  /\ call' = (IF RoleInto(role) = Panic
              THEN Call("Role::into", role, "-", "-", empty, "panic")
              ELSE Call("Role::into", role, "-", "-", RoleInto(role), "ok"))
  /\ UNCHANGED <<permissions, log, flips>>

\* AclPermissions::from(acl_admin): the flag, or the abort of the call.
into_admin(a) ==
  /\ call' = (IF AclAdminInto(a) = Panic
              THEN Call("AclAdmin::into", a, "-", "-", empty, "panic")
              ELSE Call("AclAdmin::into", a, "-", "-", AclAdminInto(a), "ok"))
  /\ UNCHANGED <<permissions, log, flips>>

ConvNext ==
  /\ call.op = "load"
  /\ \/ \E role \in Role : into_role(role)
     \/ \E a \in AclAdmin : into_admin(a)

SpecConv == QueryInit /\ [][ConvNext]_vars

(***************************************************************************)
(* Properties.  The bits of a permission set are read below by arithmetic  *)
(* on the declared flags, not through the conversions of the model.        *)
(***************************************************************************)

\* Is the single-bit flag f set in p
HasBit(p, f) == (p \div f) % 2 = 1

\* The seven declared flags.
Flags == {SUPER_ADMIN, L1, L1_ADMIN, L2, L2_ADMIN, L3, L3_ADMIN}

\* The declared flag named after a role, and the one named after its admin.
GrantConst(role) == CASE role = "L1" -> L1 [] role = "L2" -> L2 [] role = "L3" -> L3
AdminConst(role) ==
  CASE role = "L1" -> L1_ADMIN [] role = "L2" -> L2_ADMIN [] role = "L3" -> L3_ADMIN

\* The permission set of an account, an absent entry read as the empty set.
Held(perms, account_id) == IF account_id \in DOMAIN perms THEN perms[account_id] ELSE 0

\* The number of events of a kind in a log.
CountEvents(lg, id) == Cardinality({i \in 1..Len(lg) : lg[i].event = name(id)})

CheckedOps == {"acl_add_admin", "acl_revoke_admin", "acl_grant_role", "acl_revoke_role"}

ReadOps == {"acl_is_admin", "acl_has_role", "foo2", "foo3", "foo4"}

\* C1: a checked mutation (add_admin, revoke_admin, grant_role, revoke_role)
\* returns None exactly when its caller is not an admin of the role at the
\* start of the call, and then the store and the log are left as they were.
C1_UnauthorizedIffNotAdmin ==
  [][call'.op \in CheckedOps =>
       /\ (call'.ret = "None") <=> ~is_admin(permissions, call'.role, call'.predecessor)
       /\ (call'.ret = "None") => (permissions' = permissions /\ log' = log)]_vars

\* A checked mutation of another account's bits was refused.
C1_Witness ==
  /\ call.op \in CheckedOps
  /\ call.ret = "None"
  /\ call.account_id # call.predecessor
  /\ Len(log) > 3

\* C2: after revoke_admin by an admin of the role, and after renounce_admin,
\* the admin bit of the role is absent from the target's set, so that without
\* the super-admin bit the target is no admin of the role.
C2_RevokeAdminClearsBit ==
  ((call.op = "acl_revoke_admin" /\ call.ret # "None") \/ call.op = "acl_renounce_admin")
    => /\ ~HasBit(Held(permissions, call.account_id), AdminConst(call.role))
       /\ ~HasBit(Held(permissions, call.account_id), SUPER_ADMIN)
            => ~is_admin(permissions, call.role, call.account_id)

\* C3: for each kind of event, the log holds as many events of the kind as
\* there were calls (those of the construction included) that flipped the bit
\* the kind is about.
C3_EventCountEqualsFlips ==
  \A id \in AclEventId : CountEvents(log, id) = flips[id]

\* C4: right after construction by P, P is admin of L1, L2 and L3 and holds
\* none of them, and no other account is admin of or holds any role.
C4_Bootstrap ==
  call.op = "new" =>
    \A role \in Role :
      /\ is_admin(permissions, role, call.predecessor)
      /\ ~has_role(permissions, role, call.predecessor)
      /\ \A other \in Accounts \ {call.predecessor} :
           ~is_admin(permissions, role, other) /\ ~has_role(permissions, role, other)

\* The contract has just been constructed and another account exists.
C4_Witness ==
  /\ call.op = "new"
  /\ call.predecessor \in DOMAIN permissions
  /\ Accounts \ {call.predecessor} # {}

\* C5: add_admin by an admin for a target that lacks the admin bit returns
\* Some(true) and logs exactly one AdminAdded; the same call made again right
\* after returns Some(false) and leaves the store and the log as they were.
C5_AddAdminIdempotent ==
  [][call'.op = "acl_add_admin" =>
       /\ ( /\ is_admin(permissions, call'.role, call'.predecessor)
            /\ ~HasBit(Held(permissions, call'.account_id), AdminConst(call'.role)) )
          => /\ call'.ret = "Some(true)"
             /\ Len(log') = Len(log) + 1
             /\ CountEvents(log', "AdminAdded") = CountEvents(log, "AdminAdded") + 1
       /\ ( /\ call.op = "acl_add_admin"
            /\ call.ret = "Some(true)"
            /\ call'.role = call.role
            /\ call'.account_id = call.account_id
            /\ call'.predecessor = call.predecessor )
          => /\ call'.ret = "Some(false)"
             /\ permissions' = permissions
             /\ log' = log]_vars

\* add_admin found the bit set, and the last event logged is the AdminAdded of
\* the same role, target and caller: the second call of such a pair.
C5_Witness ==
  /\ call.op = "acl_add_admin"
  /\ call.ret = "Some(false)"
  /\ Len(log) = 4
  /\ log[4] = new_from_env("AdminAdded", call.role, call.account_id, call.predecessor)

\* C6: revoke_admin by an admin and renounce_admin return whether the admin
\* bit of the target was set before the call, and when it was not set they
\* write nothing to the store and log nothing.
C6_RevokeAdminNoOpWhenUnset ==
  [][( \/ call'.op = "acl_renounce_admin"
       \/ /\ call'.op = "acl_revoke_admin"
          /\ is_admin(permissions, call'.role, call'.predecessor) ) =>
       LET was == HasBit(Held(permissions, call'.account_id), AdminConst(call'.role))
       IN /\ call'.ret = (IF call'.op = "acl_renounce_admin" THEN Bool(was) ELSE Some(was))
          /\ ~was => (permissions' = permissions /\ log' = log)]_vars

\* C7: is_admin(R, S) is true exactly when the stored set of S holds the admin
\* bit of R or the super-admin bit; the super-admin bit alone makes S admin of
\* every role, and the admin bits of all roles together do not hold the
\* super-admin bit.
C7_IsAdminIffAdminOrSuperBit ==
  /\ call.op = "acl_is_admin" =>
       ( (call.ret = "true")
           <=> \/ HasBit(Held(permissions, call.account_id), AdminConst(call.role))
               \/ HasBit(Held(permissions, call.account_id), SUPER_ADMIN) )
  /\ ( /\ call.op = "check_all"
       /\ call.target = SUPER_ADMIN
       /\ Held(permissions, call.account_id) = L1_ADMIN + L2_ADMIN + L3_ADMIN )
     => call.ret = "panic"

\* An account that holds the super-admin bit and nothing else was found to be
\* an admin of L3.
C7_Witness ==
  /\ call.op = "acl_is_admin"
  /\ call.role = "L3"
  /\ call.ret = "true"
  /\ call.account_id \in DOMAIN permissions
  /\ permissions[call.account_id] = SUPER_ADMIN

\* C8: check_any passes exactly when the set of the account and the required
\* set share a flag, check_all exactly when every required flag is in the set
\* of the account; an account without an entry is read as the empty set, and
\* check_any aborts for it.
C8_CheckAnyAllExact ==
  /\ call.op = "check_any" =>
       /\ (call.ret = "ok")
            <=> \E f \in Flags : /\ HasBit(Held(permissions, call.account_id), f)
                                 /\ HasBit(call.target, f)
       /\ call.account_id \notin DOMAIN permissions => call.ret = "panic"
  /\ call.op = "check_all" =>
       (call.ret = "ok")
         <=> \A f \in Flags : HasBit(call.target, f)
                                => HasBit(Held(permissions, call.account_id), f)
  /\ call.op \in {"check_any", "check_all"} => call.ret \in {"ok", "panic"}

\* An account that holds the grant bit of L1 alone was aborted by
\* check_all of L1 and L2.
C8_Witness ==
  /\ call.op = "check_all"
  /\ call.target = L1 + L2
  /\ Held(permissions, call.account_id) = L1
  /\ call.ret = "panic"

\* C9: renounce_role returns whether the caller held the role and leaves the
\* caller without it; revoke_role by a caller who is no admin of the role
\* returns None and leaves has_role of the target as it was; revoke_role by an
\* admin leaves the target without the role.
C9_RevokeRoleSymmetry ==
  [][/\ call'.op = "acl_renounce_role" =>
          /\ call'.ret = Bool(HasBit(Held(permissions, call'.account_id),
                                     GrantConst(call'.role)))
          /\ ~has_role(permissions', call'.role, call'.account_id)
     /\ call'.op = "acl_revoke_role" =>
          IF is_admin(permissions, call'.role, call'.predecessor)
          THEN /\ call'.ret = Some(HasBit(Held(permissions, call'.account_id),
                                          GrantConst(call'.role)))
               /\ ~has_role(permissions', call'.role, call'.account_id)
          ELSE /\ call'.ret = "None"
               /\ has_role(permissions', call'.role, call'.account_id)
                    = has_role(permissions, call'.role, call'.account_id)]_vars

\* A role granted by another account has just been renounced by its holder.
C9_Witness ==
  /\ call.op = "acl_renounce_role"
  /\ call.ret = "true"
  /\ ~has_role(permissions, call.role, call.account_id)
  /\ Len(log) = 5
  /\ log[4].event = name("RoleGranted")
  /\ log[4].data.role = call.role
  /\ log[4].data.account_id = call.account_id
  /\ log[4].data.predecessor # call.account_id
  /\ log[5] = new_from_env("RoleRevoked", call.role, call.account_id, call.account_id)

\* C10: is_admin, has_role and the guards leave the store, its set of keys
\* included, and the log as they were, whether the guard passes or aborts.
C10_ReadsDoNotMutate ==
  [][call'.op \in ReadOps =>
       /\ permissions' = permissions
       /\ DOMAIN permissions' = DOMAIN permissions
       /\ log' = log]_vars

\* A guard aborted for an account that has no entry, and there is still none.
C10_Witness ==
  /\ call.op \in {"foo2", "foo3", "foo4"}
  /\ call.ret = "panic"
  /\ call.account_id \notin DOMAIN permissions

\* Is the call c the call d made again: same operation, role, target, caller
SameCall(c, d) ==
  /\ c.op = d.op
  /\ c.role = d.role
  /\ c.account_id = d.account_id
  /\ c.predecessor = d.predecessor

\* C11: grant_role by an admin for a target without the role returns
\* Some(true), logs exactly one RoleGranted and leaves has_role true; made
\* again right after it returns Some(false) and changes nothing.  revoke_role
\* by an admin for a holder returns Some(true), logs exactly one RoleRevoked
\* and leaves has_role false; made again right after it returns Some(false)
\* and changes nothing.
C11_GrantRevokeRoleIdempotent ==
  [][/\ call'.op = "acl_grant_role" =>
          /\ ( /\ is_admin(permissions, call'.role, call'.predecessor)
               /\ ~HasBit(Held(permissions, call'.account_id), GrantConst(call'.role)) )
             => /\ call'.ret = "Some(true)"
                /\ Len(log') = Len(log) + 1
                /\ CountEvents(log', "RoleGranted") = CountEvents(log, "RoleGranted") + 1
                /\ has_role(permissions', call'.role, call'.account_id)
          /\ (call.ret = "Some(true)" /\ SameCall(call', call))
             => /\ call'.ret = "Some(false)"
                /\ permissions' = permissions
                /\ log' = log
                /\ has_role(permissions', call'.role, call'.account_id)
     /\ call'.op = "acl_revoke_role" =>
          /\ ( /\ is_admin(permissions, call'.role, call'.predecessor)
               /\ HasBit(Held(permissions, call'.account_id), GrantConst(call'.role)) )
             => /\ call'.ret = "Some(true)"
                /\ Len(log') = Len(log) + 1
                /\ CountEvents(log', "RoleRevoked") = CountEvents(log, "RoleRevoked") + 1
                /\ ~has_role(permissions', call'.role, call'.account_id)
          /\ (call.ret = "Some(true)" /\ SameCall(call', call))
             => /\ call'.ret = "Some(false)"
                /\ permissions' = permissions
                /\ log' = log
                /\ ~has_role(permissions', call'.role, call'.account_id)]_vars

\* revoke_role found the role gone, and the last two events logged are the
\* RoleGranted and the RoleRevoked of the same role and target: the second
\* revoke of a pair that followed a grant.
C11_Witness ==
  /\ call.op = "acl_revoke_role"
  /\ call.ret = "Some(false)"
  /\ Len(log) = 5
  /\ log[4].event = name("RoleGranted")
  /\ log[4].data.role = call.role
  /\ log[4].data.account_id = call.account_id
  /\ log[5] = new_from_env("RoleRevoked", call.role, call.account_id, call.predecessor)

\* The name of the event each mutation logs.
EventNameOf(op) ==
  CASE op = "acl_add_admin" -> "acl_admin_added"
    [] op \in {"acl_revoke_admin", "acl_renounce_admin"} -> "acl_admin_revoked"
    [] op = "acl_grant_role" -> "acl_role_granted"
    [] op \in {"acl_revoke_role", "acl_renounce_role"} -> "acl_role_revoked"

\* Does the event record the kind, role, affected account and caller given
IsEvent(ev, kind, role, account_id, predecessor) ==
  /\ ev.event = kind
  /\ ev.data.role = role
  /\ ev.data.account_id = account_id
  /\ ev.data.predecessor = predecessor

\* C12: an event appended to the log by a call has the kind of the operation
\* called, the role passed to it, account_id the target of the call and
\* predecessor its caller; the three events of the construction are
\* AdminAdded of L1, L2, L3 for and by the deploying account.
C12_EventRecordsCall ==
  /\ [][log' # log =>
          /\ Len(log') = Len(log) + 1
          /\ call'.op \in CheckedOps \cup {"acl_renounce_admin", "acl_renounce_role"}
          /\ IsEvent(log'[Len(log')], EventNameOf(call'.op),
                     call'.role, call'.account_id, call'.predecessor)]_vars
  /\ [](call.op = "new" =>
          /\ Len(log) = 3
          /\ IsEvent(log[1], "acl_admin_added", "L1", call.predecessor, call.predecessor)
          /\ IsEvent(log[2], "acl_admin_added", "L2", call.predecessor, call.predecessor)
          /\ IsEvent(log[3], "acl_admin_added", "L3", call.predecessor, call.predecessor))

\* A role was granted to another account by an account that the deployer had
\* made admin, and the event names the role, the grantee and the granter.
C12_Witness ==
  /\ call.op = "acl_grant_role"
  /\ call.ret = "Some(true)"
  /\ call.predecessor \notin Deployers
  /\ call.account_id # call.predecessor
  /\ IsEvent(log[Len(log)], "acl_role_granted", call.role, call.account_id,
             call.predecessor)

\* C13: whatever the state of the bit before, add_admin and grant_role by an
\* admin end with the bit of the target present, and revoke_admin and
\* revoke_role by an admin, renounce_admin and renounce_role end with it
\* absent.
C13_BitStateMachine ==
  /\ (call.op = "acl_add_admin" /\ call.ret # "None")
       => HasBit(Held(permissions, call.account_id), AdminConst(call.role))
  /\ (call.op = "acl_grant_role" /\ call.ret # "None")
       => HasBit(Held(permissions, call.account_id), GrantConst(call.role))
  /\ (call.op = "acl_revoke_role" /\ call.ret # "None")
       => ~HasBit(Held(permissions, call.account_id), GrantConst(call.role))
  /\ call.op = "acl_renounce_role"
       => ~HasBit(Held(permissions, call.account_id), GrantConst(call.role))
  /\ (call.op = "acl_revoke_admin" /\ call.ret # "None")
       => ~HasBit(Held(permissions, call.account_id), AdminConst(call.role))
  /\ call.op = "acl_renounce_admin"
       => ~HasBit(Held(permissions, call.account_id), AdminConst(call.role))

\* What the call c returns and leaves behind when made on a store and a log.
Outcome(perms, lg, c) ==
  CASE c.op = "acl_add_admin" -> add_admin(perms, lg, c.role, c.account_id, c.predecessor)
    [] c.op = "acl_revoke_admin" ->
         revoke_admin(perms, lg, c.role, c.account_id, c.predecessor)
    [] c.op = "acl_renounce_admin" -> renounce_admin(perms, lg, c.role, c.predecessor)
    [] c.op = "acl_grant_role" -> grant_role(perms, lg, c.role, c.account_id, c.predecessor)
    [] c.op = "acl_revoke_role" ->
         revoke_role(perms, lg, c.role, c.account_id, c.predecessor)
    [] c.op = "acl_renounce_role" -> renounce_role(perms, lg, c.role, c.predecessor)
    [] c.op = "acl_is_admin" ->
         [permissions |-> perms, log |-> lg,
          ret |-> Bool(is_admin(perms, c.role, c.account_id))]
    [] c.op = "acl_has_role" ->
         [permissions |-> perms, log |-> lg,
          ret |-> Bool(has_role(perms, c.role, c.account_id))]
    [] c.op \in {"foo2", "foo3"} ->
         [permissions |-> perms, log |-> lg,
          ret |-> Require(check_any(perms, c.target, c.account_id))]
    [] c.op = "foo4" ->
         [permissions |-> perms, log |-> lg,
          ret |-> Require(check_all(perms, c.target, c.account_id))]

\* The store with the entry of x taken out, or put in with no bits when x has
\* none.
Twin(perms, x) ==
  IF x \in DOMAIN perms
  THEN [a \in (DOMAIN perms) \ {x} |-> perms[a]]
  ELSE [a \in (DOMAIN perms) \cup {x} |-> IF a = x THEN 0 ELSE perms[a]]

\* C14: when an account holds no bits, a call made on the store gives the
\* same return value or abort, the same events and the same permission sets
\* (an absent entry read as empty) as the same call made on the store that
\* differs only in having, or not having, an entry of no bits for the account.
C14_ZeroEntryIsAbsence ==
  [][\A x \in Accounts :
       Held(permissions, x) = 0 =>
         LET r == Outcome(Twin(permissions, x), log, call')
         IN /\ r.ret = call'.ret
            /\ r.log = log'
            /\ \A a \in Accounts : Held(r.permissions, a) = Held(permissions', a)]_vars

\* A guard aborted for a caller whose entry holds no bits.
C14_Witness ==
  /\ call.op = "foo3"
  /\ call.ret = "panic"
  /\ call.account_id \in DOMAIN permissions
  /\ permissions[call.account_id] = 0

\* Is the sequence s the beginning of the sequence t
IsPrefix(s, t) == Len(s) <= Len(t) /\ SubSeq(t, 1, Len(s)) = s

\* C15: no call takes an entry out of the store, a call that creates the
\* entry of an account sets a bit in it, and the log after a call begins with
\* the log before it.
C15_EntriesAndLogOnlyGrow ==
  [][/\ DOMAIN permissions \subseteq DOMAIN permissions'
     /\ \A x \in (DOMAIN permissions') \ (DOMAIN permissions) : permissions'[x] # 0
     /\ IsPrefix(log, log')]_vars

\* C16: in every state reached from the construction no account holds the
\* super-admin bit, so an account is admin of a role exactly when it holds the
\* admin bit of that role.
C16_NoSuperAdmin ==
  \A x \in Accounts :
    /\ ~HasBit(Held(permissions, x), SUPER_ADMIN)
    /\ \A role \in Role :
         is_admin(permissions, role, x) <=> HasBit(Held(permissions, x), AdminConst(role))

\* An account made admin of L2 after the construction was found to be admin
\* of L2 and is admin of nothing else.
C16_Witness ==
  /\ call.op = "acl_is_admin"
  /\ call.role = "L2"
  /\ call.ret = "true"
  /\ call.account_id \notin Deployers
  /\ Held(permissions, call.account_id) = L2_ADMIN
  /\ ~is_admin(permissions, "L1", call.account_id)

\* The declared flag named after a variant of AclAdmin.
AclAdminConst(a) ==
  CASE a = "Super" -> SUPER_ADMIN [] a = "L1" -> L1_ADMIN
    [] a = "L2" -> L2_ADMIN [] a = "L3" -> L3_ADMIN

\* C17: the conversion of a Role gives the declared flag of its name, which
\* is bit 2*ordinal+1, and the conversion of an AclAdmin the declared flag of
\* its name, which is bit 2*ordinal; neither aborts; and the seven flags are
\* seven different single bits.
C17_BitAssignmentInjective ==
  /\ call.op = "Role::into" =>
       /\ call.ret = "ok"
       /\ call.target = GrantConst(call.role)
       /\ call.target = 2 ^ (2 * RoleAsU8(call.role) + 1)
  /\ call.op = "AclAdmin::into" =>
       /\ call.ret = "ok"
       /\ call.target = AclAdminConst(call.role)
       /\ call.target = 2 ^ (2 * AclAdminAsU8(call.role))
  /\ Cardinality(Flags) = 7
  /\ \A f \in Flags : \E n \in 0..6 : f = 2 ^ n

\* The role L3 was converted, to the flag 32.
C17_Witness ==
  /\ call.op = "Role::into"
  /\ call.role = "L3"
  /\ call.ret = "ok"
  /\ call.target = L3

MutationOps == CheckedOps \cup {"acl_renounce_admin", "acl_renounce_role"}

\* The declared flag a mutation is about: the admin flag or the grant flag of
\* its role.
FlagOf(c) ==
  IF c.op \in {"acl_add_admin", "acl_revoke_admin", "acl_renounce_admin"}
  THEN AdminConst(c.role)
  ELSE GrantConst(c.role)

\* C18: a mutation for role R and target X changes at most the bit of X it is
\* about; every other bit of X and every bit of every other account stay as
\* they were.  So grant_role changes nobody's admin rights and add_admin
\* nobody's roles.
C18_MutationFrame ==
  [][(call'.op \in MutationOps /\ permissions' # permissions) =>
       /\ \A a \in Accounts \ {call'.account_id} :
            Held(permissions', a) = Held(permissions, a)
       /\ LET before == Held(permissions, call'.account_id)
              after == Held(permissions', call'.account_id)
          IN \/ after = before
             \/ ~HasBit(before, FlagOf(call')) /\ after = before + FlagOf(call')
             \/ HasBit(before, FlagOf(call')) /\ after = before - FlagOf(call')
       /\ call'.op = "acl_grant_role" =>
            \A a \in Accounts :
              is_admin(permissions', call'.role, a) <=> is_admin(permissions, call'.role, a)
       /\ call'.op = "acl_add_admin" =>
            \A a \in Accounts :
              has_role(permissions', call'.role, a) <=> has_role(permissions, call'.role, a)]_vars

\* A role was granted to an account that is no admin of it and holds nothing
\* else.
C18_Witness ==
  /\ call.op = "acl_grant_role"
  /\ call.ret = "Some(true)"
  /\ Held(permissions, call.account_id) = GrantConst(call.role)
  /\ ~is_admin(permissions, call.role, call.account_id)

\* C19: when a call made after the construction sets an admin bit or a grant
\* bit of a role, its caller was an admin of the role at the start of the
\* call; when it clears such a bit of an account X, its caller was an admin
\* of the role at the start of the call or is X.
C19_NoGainWithoutAdmin ==
  [][permissions' # permissions =>
       \A x \in Accounts, role \in Role :
         \A f \in {AdminConst(role), GrantConst(role)} :
           /\ (~HasBit(Held(permissions, x), f) /\ HasBit(Held(permissions', x), f))
                => is_admin(permissions, role, call'.predecessor)
           /\ (HasBit(Held(permissions, x), f) /\ ~HasBit(Held(permissions', x), f))
                => \/ is_admin(permissions, role, call'.predecessor)
                   \/ call'.predecessor = x]_vars

\* An account that is no admin of a role gave up the role it held.
C19_Witness ==
  /\ call.op = "acl_renounce_role"
  /\ call.ret = "true"
  /\ ~is_admin(permissions, call.role, call.predecessor)
  /\ log[Len(log)] = new_from_env("RoleRevoked", call.role, call.predecessor,
                                  call.predecessor)

====
